---- MODULE Spec2Model ----
(***************************************************************************)
(* Model of tadosuke/create_dependency_graph.                              *)
(*                                                                         *)
(*   create_dependency.py            CodeAnalyzer (relations + unreferenced)*)
(*   create_dependency_matplotlib.py GraphBuilder / GraphStyler / Renderer  *)
(*   create_dependency_plantuml.py   CodeAnalyzer (plain) + PlantUMLGenerator*)
(*                                                                         *)
(* The input of every tool is the syntax tree ast.parse returns.  A tree   *)
(* node is a record [type, name, kids, decs]; ast.iter_child_nodes yields  *)
(* kids followed by decs (for a FunctionDef: body, then decorator_list).   *)
(* Python dicts keep insertion order and are modelled as sequences of      *)
(* items [k |-> key, v |-> value].                                         *)
(***************************************************************************)
EXTENDS Integers, Sequences, FiniteSets, TLC

VARIABLES tree, pc, class_relations, graph, exc, figures,
          puml_pc, puml_relations, plantuml_code

vars == <<tree, pc, class_relations, graph, exc, figures,
          puml_pc, puml_relations, plantuml_code>>

\* ------------------------------------------------------------------ bounds
\* methods (or nested classes) in one class body
MaxMethods == 2
\* classes in a mapping handed directly to the graph builder
MaxClasses == 2
\* length of one attribute-reference list in such a mapping
MaxRefs == 2

\* ------------------------------------------------------------- ast nodes
Node(type, name, kids, decs) ==
    [type |-> type, name |-> name, kids |-> kids, decs |-> decs]

Name(id) == Node("Name", id, <<>>, <<>>)

Constant == Node("Constant", "", <<>>, <<>>)

Attribute(value, attr) == Node("Attribute", attr, <<value>>, <<>>)

Tuple(elts) == Node("Tuple", "", elts, <<>>)

\* ast.Assign: fields targets, value (children in that order)
Assign(targets, value) == Node("Assign", "", targets \o <<value>>, <<>>)

Expr(value) == Node("Expr", "", <<value>>, <<>>)

\* ast.FunctionDef: fields name, args, body, decorator_list.  The arguments
\* node holds only ast.arg leaves here and is left out.
FunctionDef(name, body, decorator_list) ==
    Node("FunctionDef", name, body, decorator_list)

ClassDef(name, body) == Node("ClassDef", name, body, <<>>)

Module(body) == Node("Module", "", body, <<>>)

Targets(assign_node) == SubSeq(assign_node.kids, 1, Len(assign_node.kids) - 1)

\* ------------------------------------------------------------- ast.walk
iter_child_nodes(node) == node.kids \o node.decs

RECURSIVE Flatten(_)
Flatten(seqs) ==
    IF seqs = <<>> THEN <<>> ELSE Head(seqs) \o Flatten(Tail(seqs))

RECURSIVE WalkLevels(_)
\* ast.walk: breadth first.  The deque is first in, first out, so the nodes
\* come out level by level, each level in the order of its parents; level is
\* the part of the deque that holds one depth of the tree.
WalkLevels(level) ==
    IF level = <<>> THEN <<>>
    ELSE level
         \o WalkLevels(Flatten([i \in DOMAIN level |->
                                  iter_child_nodes(level[i])]))

walk(node) == WalkLevels(<<node>>)

\* the nodes of a walk that pass `if not isinstance(node, <type>): continue`
OfType(nodes, type) ==
    LET is_type(n) == n.type = type IN SelectSeq(nodes, is_type)

\* ----------------------------------------------------------------- dicts
Item(k, v) == [k |-> k, v |-> v]

DictKeys(d) == {d[i].k : i \in DOMAIN d}

DictGet(d, k) == d[CHOOSE i \in DOMAIN d : d[i].k = k].v

\* d[k] = v : an existing key keeps its position
DictSet(d, k, v) ==
    IF k \in DictKeys(d)
    THEN [i \in DOMAIN d |-> IF d[i].k = k THEN Item(k, v) ELSE d[i]]
    ELSE Append(d, Item(k, v))

\* the Python type of a value of the class mapping
PyTuple(elts) == [pytype |-> "tuple", elts |-> elts]

PyDict(items) == [pytype |-> "dict", elts |-> items]

\* -------------------------------------------- create_dependency.CodeAnalyzer
\* isinstance(target, ast.Attribute) and isinstance(target.value, ast.Name)
\* and target.value.id == 'self'
IsSelfAttribute(target) ==
    /\ target.type = "Attribute"
    /\ target.kids[1].type = "Name"
    /\ target.kids[1].name = "self"

_get_member_vars(class_node) ==
    LET w == walk(class_node)
    IN UNION { { Targets(w[i])[j].name :
                   j \in { t \in 1..Len(Targets(w[i])) :
                             IsSelfAttribute(Targets(w[i])[t]) } } :
               i \in { n \in DOMAIN w : w[n].type = "Assign" } }

IsPropertyDecorator(decorator) ==
    decorator.type = "Name" /\ decorator.name = "property"

_get_properties(class_node) ==
    LET w == walk(class_node)
    IN { w[i].name :
           i \in { n \in DOMAIN w :
                     /\ w[n].type = "FunctionDef"
                     /\ \E d \in DOMAIN w[n].decs :
                            IsPropertyDecorator(w[n].decs[d]) } }

_get_functions(class_node) ==
    LET w == walk(class_node)
    IN { w[i].name : i \in { n \in DOMAIN w : w[n].type = "FunctionDef" } }

\* the three `continue` tests on an attribute name
IsRecordedNoSkip(attribute_name, properties, functions, member_vars) ==
    attribute_name \in member_vars

IsRecordedNoMembership(attribute_name, properties, functions, member_vars) ==
    /\ attribute_name \notin properties
    /\ attribute_name \notin functions

IsRecorded(attribute_name, properties, functions, member_vars) ==
    /\ attribute_name \notin properties
    /\ attribute_name \notin functions
    /\ attribute_name \in member_vars

RECURSIVE AttrLoop(_, _, _, _, _, _)
\* for attr_node in ast.walk(sub_node), nodes the Attribute nodes of the walk
AttrLoop(relations, function_name, nodes, properties, functions, member_vars) ==
    IF nodes = <<>> THEN relations
    ELSE LET attr_node == Head(nodes)
             next ==
               IF IsRecorded(attr_node.name, properties, functions,
                             member_vars)
               THEN DictSet(relations, function_name,
                            Append(DictGet(relations, function_name),
                                   attr_node.name))
               ELSE relations
         IN AttrLoop(next, function_name, Tail(nodes), properties, functions,
                     member_vars)

RECURSIVE FuncLoop(_, _, _, _, _)
\* for sub_node in ast.walk(class_node), nodes the FunctionDef nodes of the
\* walk
FuncLoop(relations, nodes, properties, functions, member_vars) ==
    IF nodes = <<>> THEN relations
    ELSE LET sub_node == Head(nodes)
             next ==
               IF sub_node.name = "__init__"
               THEN relations
               ELSE AttrLoop(DictSet(relations, sub_node.name, <<>>),
                             sub_node.name,
                             OfType(walk(sub_node), "Attribute"), properties,
                             functions, member_vars)
         IN FuncLoop(next, Tail(nodes), properties, functions, member_vars)

_analyze_function_to_var_relations(class_node, member_vars) ==
    FuncLoop(<<>>, OfType(walk(class_node), "FunctionDef"),
             _get_properties(class_node),
             _get_functions(class_node), member_vars)

SeqElems(s) == {s[i] : i \in DOMAIN s}

_find_unreferenced_vars_last_only(relations, member_vars) ==
    IF relations = <<>> THEN member_vars
    ELSE member_vars \ SeqElems(relations[Len(relations)].v)

_find_unreferenced_vars(relations, member_vars) ==
    LET all_referenced_vars ==
          UNION { SeqElems(relations[i].v) : i \in DOMAIN relations }
    IN member_vars \ all_referenced_vars

_analyze_class_node(class_node) ==
    LET member_vars == _get_member_vars(class_node)
        relations == _analyze_function_to_var_relations(class_node, member_vars)
        unreferenced_vars == _find_unreferenced_vars(relations, member_vars)
    IN PyTuple(<<relations, unreferenced_vars>>)

RECURSIVE ClassLoop(_, _)
\* for node in ast.walk(tree), nodes the ClassDef nodes of the walk
ClassLoop(relations, nodes) ==
    IF nodes = <<>> THEN relations
    ELSE LET node == Head(nodes)
         IN ClassLoop(DictSet(relations, node.name, _analyze_class_node(node)),
                      Tail(nodes))

analyze_code(t) == ClassLoop(<<>>, OfType(walk(t), "ClassDef"))

\* ------------------------------------- create_dependency_plantuml.CodeAnalyzer
RECURSIVE PumlAttrLoop(_, _, _, _)
\* for attr_node in ast.walk(sub_node), nodes the Attribute nodes of the
\* walk: only property names are skipped
PumlAttrLoop(relations, function_name, nodes, properties) ==
    IF nodes = <<>> THEN relations
    ELSE LET attr_node == Head(nodes)
             next ==
               IF attr_node.name \notin properties
               THEN DictSet(relations, function_name,
                            Append(DictGet(relations, function_name),
                                   attr_node.name))
               ELSE relations
         IN PumlAttrLoop(next, function_name, Tail(nodes), properties)

RECURSIVE PumlFuncLoop(_, _, _)
\* for sub_node in ast.walk(class_node), nodes the FunctionDef nodes of the
\* walk: every one becomes a key
PumlFuncLoop(relations, nodes, properties) ==
    IF nodes = <<>> THEN relations
    ELSE LET sub_node == Head(nodes)
         IN PumlFuncLoop(
              PumlAttrLoop(DictSet(relations, sub_node.name, <<>>),
                           sub_node.name, OfType(walk(sub_node), "Attribute"),
                           properties),
              Tail(nodes), properties)

puml_analyze_class_node(class_node) ==
    PyDict(PumlFuncLoop(<<>>, OfType(walk(class_node), "FunctionDef"),
                        _get_properties(class_node)))

RECURSIVE PumlClassLoop(_, _)
PumlClassLoop(relations, nodes) ==
    IF nodes = <<>> THEN relations
    ELSE LET node == Head(nodes)
         IN PumlClassLoop(DictSet(relations, node.name,
                                  puml_analyze_class_node(node)),
                          Tail(nodes))

puml_analyze_code(t) == PumlClassLoop(<<>>, OfType(walk(t), "ClassDef"))

\* ----------------------------------------------------- PlantUMLGenerator
\* Text is a sequence of lines, a line the sequence of the pieces the
\* f-string joins.

\* Iteration order of a set of str: fixed by the string hashes of the run
\* (hash randomisation), given here as the order hash_order lists the names.
SetIterationOrder(S, hash_order) ==
    LET in_set(n) == n \in S IN SelectSeq(hash_order, in_set)

RECURSIVE _generate_attribute_section(_)
\* attributes: the set, in the order the for loop meets it
_generate_attribute_section(attributes) ==
    IF attributes = <<>> THEN <<>>
    ELSE <<<<"() ", Head(attributes)>>>>
         \o _generate_attribute_section(Tail(attributes))

RECURSIVE _generate_function_section(_)
_generate_function_section(relations) ==
    IF relations = <<>> THEN <<>>
    ELSE <<<<"entity f_", Head(relations).k>>>>
         \o _generate_function_section(Tail(relations))

RECURSIVE RelationLines(_, _)
RelationLines(function_name, attribute_list) ==
    IF attribute_list = <<>> THEN <<>>
    ELSE <<<<"f_", function_name, " --> ", Head(attribute_list)>>>>
         \o RelationLines(function_name, Tail(attribute_list))

RECURSIVE _generate_relations_section(_)
_generate_relations_section(relations) ==
    IF relations = <<>> THEN <<>>
    ELSE RelationLines(Head(relations).k, Head(relations).v)
         \o _generate_relations_section(Tail(relations))

RECURSIVE GenerateClasses(_, _)
GenerateClasses(class_items, hash_order) ==
    IF class_items = <<>> THEN <<>>
    ELSE LET class_name == Head(class_items).k
             relations == Head(class_items).v.elts
             attributes ==
               UNION { SeqElems(relations[i].v) : i \in DOMAIN relations }
         IN <<<<"class ", class_name, " {">>>>
            \o _generate_attribute_section(SetIterationOrder(attributes,
                                                          hash_order))
            \o _generate_function_section(relations)
            \o _generate_relations_section(relations)
            \o <<<<"}">>>>
            \o GenerateClasses(Tail(class_items), hash_order)

generate(relations_by_class, hash_order) ==
    <<<<"@startuml">>>> \o GenerateClasses(relations_by_class, hash_order)
    \o <<<<"@enduml">>>>

\* ------------------------------------------- create_dependency_matplotlib
_COLOR_CLASS == "#FF4040"

_COLOR_FUNCTION == "#0080FF"

_COLOR_FIELD == "#80FF00"

\* nx.DiGraph: node |-> set of <<id, color>>, adj |-> set of <<u, v>>
EmptyGraph == [node |-> {}, adj |-> {}]

GraphNodes(g) == {p[1] : p \in g.node}

Successors(g, n) == {e[2] : e \in {d \in g.adj : d[1] = n}}

\* the add_node calls made for one (func_name, attrs) item, in order, each
\* as <<node, color>>
AddNodeCallsOfFunc(func_item) ==
    <<<<func_item.k, _COLOR_FUNCTION>>>>
    \o [i \in DOMAIN func_item.v |-> <<func_item.v[i], _COLOR_FIELD>>]

\* the add_node calls made for one class: the class node, then, when
\* func_to_attr has items(), those of its functions
AddNodeCallsOfClass(class_item) ==
    <<<<class_item.k, _COLOR_CLASS>>>>
    \o (IF class_item.v.pytype = "dict"
        THEN Flatten([j \in DOMAIN class_item.v.elts |->
                        AddNodeCallsOfFunc(class_item.v.elts[j])])
        ELSE <<>>)

\* the add_edge calls made for one class
AddEdgeCallsOfClass(class_item) ==
    IF class_item.v.pytype # "dict" THEN {}
    ELSE LET items == class_item.v.elts
         IN {<<class_item.k, items[j].k>> : j \in DOMAIN items}
            \cup UNION { {<<items[j].k, items[j].v[i]>> :
                            i \in DOMAIN items[j].v} : j \in DOMAIN items }

\* for class_name, func_to_attr in class_to_func_data.items().
\* func_to_attr.items() exists on a dict only; on a tuple the attribute
\* lookup raises AttributeError and the method is left with the graph as it
\* is at that point: the loop ends at the first class whose value is not a
\* dict.  add_node(n, color=c) on an existing node replaces its color, so a
\* node ends with the color of the last call that names it.
add_nodes_and_edges(g, class_items) ==
    LET raising == {i \in DOMAIN class_items :
                      class_items[i].v.pytype # "dict"}
        last == IF raising = {} THEN Len(class_items)
                ELSE CHOOSE i \in raising : \A j \in raising : i <= j
        add_node == Flatten([i \in 1..last |->
                               AddNodeCallsOfClass(class_items[i])])
        add_edge == UNION {AddEdgeCallsOfClass(class_items[i]) : i \in 1..last}
        added == {add_node[i][1] : i \in DOMAIN add_node}
        color(n) ==
          add_node[CHOOSE i \in DOMAIN add_node :
                     /\ add_node[i][1] = n
                     /\ \A j \in DOMAIN add_node :
                          add_node[j][1] = n => j <= i][2]
    IN [graph |-> [node |-> {p \in g.node : p[1] \notin added}
                            \cup {<<n, color(n)>> : n \in added},
                   adj |-> g.adj \cup add_edge],
        exc |-> IF raising = {} THEN "none" ELSE "AttributeError"]

\* GraphStyler.apply_style: {node: data['color']}
apply_style(g) == g.node

\* GraphRenderer._create_subgraph_for_class: graph.subgraph(sub_nodes)
_create_subgraph_for_class(g, class_name) ==
    LET descendants == Successors(g, class_name)
        sub_nodes == {class_name} \cup descendants
                     \cup UNION {Successors(g, desc) : desc \in descendants}
    IN [node |-> {p \in g.node : p[1] \in sub_nodes},
        adj |-> {e \in g.adj : e[1] \in sub_nodes /\ e[2] \in sub_nodes}]

RECURSIVE render(_, _, _)
\* GraphRenderer.render: one figure per class name; colors[n] is looked up
\* for every node of the subgraph
render(g, colors, class_names) ==
    IF class_names = <<>> THEN <<>>
    ELSE LET subG == _create_subgraph_for_class(g, Head(class_names))
         IN <<[title |-> Head(class_names),
               subG |-> subG,
               node_color |-> {p \in colors : p[1] \in GraphNodes(subG)}]>>
            \o render(g, colors, Tail(class_names))

\* ------------------------------------------------------------ source trees
SeqsUpTo(S, n) == UNION {[1..k -> S] : k \in 0..n}

Perms(S) ==
    {s \in [1..Cardinality(S) -> S] :
       \A i, j \in DOMAIN s : i # j => s[i] # s[j]}

SelfAttr(n) == Attribute(Name("self"), n)

OtherAttr(n) == Attribute(Name("other"), n)

\* statements of a method body
Stmts ==
    { Expr(SelfAttr("a")),                                  \* self.a
      Expr(SelfAttr("f")),                                  \* self.f
      Expr(OtherAttr("b")),                                 \* other.b
      Expr(Attribute(SelfAttr("a"), "b")),                  \* self.a.b
      Assign(<<SelfAttr("a")>>, Constant),                  \* self.a = 0
      Assign(<<SelfAttr("b")>>, SelfAttr("b")),             \* self.b = self.b
      Assign(<<SelfAttr("a"), SelfAttr("b")>>, Constant),   \* self.a = self.b = 0
      Assign(<<Tuple(<<SelfAttr("a"), SelfAttr("b")>>)>>, Constant),
                                                            \* self.a, self.b = 1, 2
      Assign(<<SelfAttr("f")>>, Constant),                  \* self.f = 0
      Assign(<<OtherAttr("a")>>, Constant),                 \* other.a = 0
      FunctionDef("h", <<Expr(SelfAttr("b"))>>, <<>>) }     \* def h(): self.b

Property == Name("property")

\* name and decorator_list of a method
Headers ==
    { <<"__init__", <<>>>>, <<"f", <<>>>>, <<"f", <<Property>>>>,
      <<"g", <<>>>> }

\* method bodies: one statement, or the two reads self.b; self.a
Bodies ==
    {<<s>> : s \in Stmts} \cup {<<Expr(SelfAttr("b")), Expr(SelfAttr("a"))>>}

Methods == {FunctionDef(h[1], b, h[2]) : h \in Headers, b \in Bodies}

NestedClasses ==
    { ClassDef("Inner", <<FunctionDef("__init__",
                            <<Assign(<<SelfAttr("b")>>, Constant)>>, <<>>)>>),
      ClassDef("Inner", <<FunctionDef("g", <<Expr(SelfAttr("a"))>>, <<>>)>>) }

ClassBodies == SeqsUpTo(Methods \cup NestedClasses, MaxMethods) \ {<<>>}

\* class Abc: __init__ sets self.a, self.b; bar reads self.a; baz reads
\* self.b and self.c
ScenarioABC ==
    Module(<<ClassDef("Abc",
      << FunctionDef("__init__", <<Assign(<<SelfAttr("a")>>, Constant),
                                   Assign(<<SelfAttr("b")>>, Constant)>>, <<>>),
         FunctionDef("bar", <<Expr(SelfAttr("a"))>>, <<>>),
         FunctionDef("baz", <<Expr(SelfAttr("b")), Expr(SelfAttr("c"))>>,
                     <<>>) >>)>>)

\* class Unread: __init__ sets self.x, nothing reads it
ScenarioX ==
    Module(<<ClassDef("Unread",
      << FunctionDef("__init__", <<Assign(<<SelfAttr("x")>>, Constant)>>,
                     <<>>) >>)>>)

\* class Value: property value, method get reads self.value
ScenarioValue ==
    Module(<<ClassDef("Value",
      << FunctionDef("__init__", <<Assign(<<SelfAttr("_value")>>, Constant)>>,
                     <<>>),
         FunctionDef("value", <<Expr(SelfAttr("_value"))>>, <<Property>>),
         FunctionDef("get", <<Expr(SelfAttr("value"))>>, <<>>) >>)>>)

\* class GetSet: property v reads self._a, its setter writes self._b
ScenarioGetSet ==
    Module(<<ClassDef("GetSet",
      << FunctionDef("__init__",
                     <<Assign(<<SelfAttr("_a"), SelfAttr("_b")>>, Constant)>>,
                     <<>>),
         FunctionDef("v", <<Expr(SelfAttr("_a"))>>, <<Property>>),
         FunctionDef("v", <<Assign(<<SelfAttr("_b")>>, Name("x"))>>,
                     <<Attribute(Name("v"), "setter")>>) >>)>>)

Scenarios == {ScenarioABC, ScenarioX, ScenarioValue, ScenarioGetSet}

Sources ==
    {Module(<<>>)} \cup {Module(<<ClassDef("Foo", cb)>>) : cb \in ClassBodies}
    \cup Scenarios

PumlStmts ==
    { Expr(SelfAttr("a")),
      Expr(SelfAttr("f")),
      Expr(Attribute(SelfAttr("a"), "b")),
      Assign(<<SelfAttr("b")>>, Constant) }

PumlMethods ==
    {FunctionDef(h[1], b, h[2]) :
       h \in Headers, b \in {<<s>> : s \in PumlStmts}}

PumlSources ==
    {Module(<<>>)}
    \cup {Module(<<ClassDef("Foo", cb)>>) :
            cb \in SeqsUpTo(PumlMethods, MaxMethods) \ {<<>>}}
    \cup Scenarios

\* mappings handed to GraphBuilder.add_nodes_and_edges: class name to
\* relation dict, no attribute named like a method of the same class
GraphFuncDicts ==
    {d \in SeqsUpTo([k : {"f", "g"}, v : SeqsUpTo({"a", "g"}, MaxRefs)],
                    MaxMethods) :
       /\ \A i, j \in DOMAIN d : i # j => d[i].k # d[j].k
       /\ \A i \in DOMAIN d : SeqElems(d[i].v) \cap DictKeys(d) = {}}

GraphMappings ==
    {m \in SeqsUpTo([k : {"A", "B"}, v : {PyDict(d) : d \in GraphFuncDicts}],
                    MaxClasses) :
       \A i, j \in DOMAIN m : i # j => m[i].k # m[j].k}

\* ---------------------------------------------------------------- actions
Idle ==
    /\ class_relations = <<>>
    /\ graph = EmptyGraph
    /\ exc = "none"
    /\ figures = <<>>
    /\ puml_relations = <<>>
    /\ plantuml_code = <<<<>>, <<>>>>

\* create_dependency_matplotlib run on a source file
Init ==
    /\ tree \in Sources
    /\ pc = "parsed"
    /\ puml_pc = "off"
    /\ Idle

\* create_dependency.CodeAnalyzer.analyze_code
AnalyzeCode ==
    /\ pc = "parsed"
    /\ class_relations' = analyze_code(tree)
    /\ pc' = "analyzed"
    /\ UNCHANGED <<tree, graph, exc, figures, puml_pc, puml_relations,
                   plantuml_code>>

\* draw_class_to_func_graph(class_relations)
draw_class_to_func_graph ==
    /\ pc = "analyzed"
    /\ LET built == add_nodes_and_edges(EmptyGraph, class_relations)
           class_names == [i \in DOMAIN class_relations |->
                             class_relations[i].k]
       IN /\ graph' = built.graph
          /\ exc' = built.exc
          /\ IF built.exc = "none"
             THEN /\ figures' = render(built.graph, apply_style(built.graph),
                                       class_names)
                  /\ pc' = "drawn"
             ELSE /\ figures' = figures
                  /\ pc' = "raised"
    /\ UNCHANGED <<tree, class_relations, puml_pc, puml_relations,
                   plantuml_code>>

\* create_dependency_plantuml.CodeAnalyzer.analyze_code
PumlAnalyzeCode ==
    /\ puml_pc = "parsed"
    /\ puml_relations' = puml_analyze_code(tree)
    /\ puml_pc' = "analyzed"
    /\ UNCHANGED <<tree, pc, class_relations, graph, exc, figures,
                   plantuml_code>>

PumlAttributes ==
    UNION { UNION { SeqElems(puml_relations[c].v.elts[f].v) :
                      f \in DOMAIN puml_relations[c].v.elts } :
            c \in DOMAIN puml_relations }

\* PlantUMLGenerator.generate in run number run; the run's string hashes
\* fix hash_order
PumlGenerate(run) ==
    /\ puml_pc = "analyzed"
    /\ plantuml_code[run] = <<>>
    /\ \E hash_order \in Perms(PumlAttributes) :
         plantuml_code' =
           [plantuml_code EXCEPT ![run] = generate(puml_relations, hash_order)]
    /\ UNCHANGED <<tree, pc, class_relations, graph, exc, figures, puml_pc,
                   puml_relations>>

Next == AnalyzeCode \/ draw_class_to_func_graph

Spec == Init /\ [][Next]_vars

\* both analyzers and two runs of the textual renderer on one source file
InitPuml ==
    /\ tree \in PumlSources
    /\ pc = "parsed"
    /\ puml_pc = "parsed"
    /\ Idle

NextPuml == AnalyzeCode \/ PumlAnalyzeCode \/ \E run \in {1, 2} : PumlGenerate(run)

SpecPuml == InitPuml /\ [][NextPuml]_vars

\* the graph builder and renderer on a mapping of relation dicts
InitGraph ==
    /\ tree = Module(<<>>)
    /\ pc = "analyzed"
    /\ puml_pc = "off"
    /\ class_relations \in GraphMappings
    /\ graph = EmptyGraph
    /\ exc = "none"
    /\ figures = <<>>
    /\ puml_relations = <<>>
    /\ plantuml_code = <<<<>>, <<>>>>

NextGraph == draw_class_to_func_graph

SpecGraph == InitGraph /\ [][NextGraph]_vars

\* ----------------------------------------------------------------- claims
Analyzed == pc \in {"analyzed", "drawn", "raised"} /\ tree # Module(<<>>)

\* the class definition an entry of the result stands for: the last one of
\* that name met by the walk over the tree (nested classes included)
LastClassDef(class_name) ==
    LET w == walk(tree)
        at == {i \in DOMAIN w :
                 w[i].type = "ClassDef" /\ w[i].name = class_name}
    IN w[CHOOSE i \in at : \A j \in at : j <= i]

\* the classes of the result
ClassNodes == {LastClassDef(name) : name \in DictKeys(class_relations)}

RelationsOf(C) == DictGet(class_relations, C.name).elts[1]

UnreferencedOf(C) == DictGet(class_relations, C.name).elts[2]

ReferencedOf(C) ==
    UNION { SeqElems(RelationsOf(C)[i].v) : i \in DOMAIN RelationsOf(C) }

\* names of the attribute-access expressions under node, in traversal order
AttributeNames(node) ==
    LET is_attr(n) == n.type = "Attribute"
        found == SelectSeq(walk(node), is_attr)
    IN [i \in DOMAIN found |-> found[i].name]

\* methods defined directly under the class
DirectMethods(C) ==
    {C.kids[i] : i \in {n \in DOMAIN C.kids : C.kids[n].type = "FunctionDef"}}

\* the function definition that a key of the relation map stands for: the
\* last one of that name met by the walk over the class
LastDef(C, function_name) ==
    LET w == walk(C)
        at == {i \in DOMAIN w :
                 w[i].type = "FunctionDef" /\ w[i].name = function_name}
    IN w[CHOOSE i \in at : \A j \in at : j <= i]

\* C1: for every class, the unreferenced attributes are member variables
\* of the class and none of them occurs in an attribute-reference list of
\* the class.
C1_UnreferencedAreUnusedMembers ==
    Analyzed =>
      \A C \in ClassNodes :
        /\ UnreferencedOf(C) \subseteq _get_member_vars(C)
        /\ UnreferencedOf(C) \cap ReferencedOf(C) = {}

\* a class with an unreferenced member variable next to a referenced one,
\* the referenced one not in the last method's list
C1_Witness ==
    /\ Analyzed
    /\ \E C \in ClassNodes :
         /\ UnreferencedOf(C) # {}
         /\ Len(RelationsOf(C)) > 1
         /\ RelationsOf(C)[1].v # <<>>
         /\ SeqElems(RelationsOf(C)[1].v)
              \cap SeqElems(RelationsOf(C)[Len(RelationsOf(C))].v) = {}

\* C2: the constructor name __init__ is never a key of a class's
\* function-to-attributes map, neither in the map of
\* create_dependency.CodeAnalyzer nor in the map of
\* create_dependency_plantuml.CodeAnalyzer.
C2_ConstructorNeverKey ==
    /\ Analyzed =>
         \A i \in DOMAIN class_relations :
           "__init__" \notin DictKeys(class_relations[i].v.elts[1])
    /\ puml_pc = "analyzed" =>
         \A i \in DOMAIN puml_relations :
           "__init__" \notin DictKeys(puml_relations[i].v.elts)

\* C3: the name of a method carrying the property marker is never an
\* element of an attribute-reference list of its class, also when a method
\* accesses self.<property_name> and the name is assigned as a member
\* variable.
C3_PropertyNeverReferenced ==
    Analyzed =>
      \A C \in ClassNodes :
        \A m \in {d \in SeqElems(walk(C)) : d.type = "FunctionDef"} :
          (\E i \in DOMAIN m.decs : IsPropertyDecorator(m.decs[i]))
            => m.name \notin ReferencedOf(C)

\* a property whose name is assigned as self.<name> and read by a method
\* that is a key of the map
C3_Witness ==
    /\ Analyzed
    /\ \E C \in ClassNodes :
         \E p \in _get_properties(C) :
           /\ p \in _get_member_vars(C)
           /\ \E k \in DictKeys(RelationsOf(C)) :
                p \in SeqElems(AttributeNames(LastDef(C, k)))

C5_UnreferencedIffNeverAccessed ==
    Analyzed =>
      \A C \in ClassNodes :
        \A m \in _get_member_vars(C) :
          m \in UnreferencedOf(C)
            <=> ~ \E d \in DirectMethods(C) :
                    d.name # "__init__" /\ m \in SeqElems(AttributeNames(d))

\* C6: two invocations of the textual renderer on one relation map give
\* identical text.
C6_DeterministicText ==
    (plantuml_code[1] # <<>> /\ plantuml_code[2] # <<>>)
      => plantuml_code[1] = plantuml_code[2]

RECURSIVE ExpectedGraph(_, _)
\* the Class/Function/Field nodes and edges of a class-to-relation list
ExpectedGraph(g, class_items) ==
    IF class_items = <<>> THEN g
    ELSE LET c == Head(class_items).k
             rel == Head(class_items).v.elts[1]
         IN ExpectedGraph(
              [node |-> g.node \cup {c} \cup DictKeys(rel)
                        \cup UNION {SeqElems(rel[i].v) : i \in DOMAIN rel},
               adj |-> g.adj \cup {<<c, f>> : f \in DictKeys(rel)}
                       \cup UNION { {<<rel[i].k, a>> : a \in SeqElems(rel[i].v)}
                                    : i \in DOMAIN rel }],
              Tail(class_items))

\* C7: on the mapping analyze_code returns, add_nodes_and_edges completes
\* and the graph has exactly the class, method and attribute nodes and the
\* Class->Function and Function->Field edges of the mapping.
C7_BuilderCompletes ==
    pc \in {"drawn", "raised"} =>
      /\ exc = "none"
      /\ GraphNodes(graph) = ExpectedGraph(EmptyGraph, class_relations).node
      /\ graph.adj = ExpectedGraph(EmptyGraph, class_relations).adj

RECURSIVE Reachable(_, _)
Reachable(g, seen) ==
    LET more == seen \cup UNION {Successors(g, n) : n \in seen}
    IN IF more = seen THEN seen ELSE Reachable(g, more)

\* C8: a built graph has no directed path longer than two edges, and the
\* subgraph drawn for a class holds every node reachable from the class.
C8_ThreeTiers ==
    pc = "drawn" =>
      /\ ~ \E e1, e2, e3 \in graph.adj : e1[2] = e2[1] /\ e2[2] = e3[1]
      /\ \A i \in DOMAIN figures :
           Reachable(graph, {figures[i].title})
             \subseteq GraphNodes(figures[i].subG)

\* function definitions nested inside a method of the class
NestedHelpers(C) ==
    {n \in UNION {SeqElems(walk(d)) \ {d} : d \in DirectMethods(C)} :
       n.type = "FunctionDef"}

\* C9: the keys of a class's map are exactly the methods defined directly
\* under the class other than the constructor, the method-name set is
\* exactly the methods defined directly under the class, and a nested
\* helper function is not a key.
C9_KeysAreDirectMethods ==
    Analyzed =>
      \A C \in ClassNodes :
        LET direct == {d.name : d \in DirectMethods(C)}
        IN /\ DictKeys(RelationsOf(C)) = direct \ {"__init__"}
           /\ _get_functions(C) = direct
           /\ \A h \in NestedHelpers(C) :
                h.name \notin direct => h.name \notin DictKeys(RelationsOf(C))

\* the self.<name> targets of the assignment statements under the class,
\* the elements of a tuple target included
SelfTargetNames(C) ==
    LET w == walk(C)
        flat(t) == IF t.type = "Tuple" THEN SeqElems(t.kids) ELSE {t}
    IN UNION { UNION { {x.name : x \in {y \in flat(Targets(w[i])[j]) :
                                           IsSelfAttribute(y)}} :
                       j \in DOMAIN Targets(w[i]) } :
               i \in {n \in DOMAIN w : w[n].type = "Assign"} }

\* C10: the member-variable set holds the name of every self.<name>
\* assignment target, each target of a chained or a tuple assignment
\* counted on its own.
C10_EveryTargetIsMember ==
    Analyzed =>
      \A C \in ClassNodes : SelfTargetNames(C) \subseteq _get_member_vars(C)

====
